---- MODULE Spec2Model ----
(***************************************************************************)
(* A model of autojaki's drumming.py: the pattern enumerator               *)
(* (PatternGenerator), the lazy Patterns objects it hands out, and the     *)
(* closed-form Fibonacci count it reports.                                 *)
(*                                                                         *)
(* Symbols: the default alphabet of the source is the two-character string *)
(* U+00B7 U+2013; the module writes "." for position 0 and "-" for         *)
(* position 1, since the module text is ASCII.                             *)
(***************************************************************************)
EXTENDS Integers, Sequences, FiniteSets, TLC

(***************************************************************************)
(* Bounds of the model.                                                    *)
(***************************************************************************)
\* the largest target length of a space whose cursor is shared by
\* interleaved calls
MaxN == 3
\* target lengths down to -MaxNeg are constructed too
MaxNeg == 2
\* the largest target length of a space that is only iterated and reset
MaxEnumN == 6
\* the largest k passed to choose(k)
MaxChoices == 2
\* the largest target length whose count is computed (counting only)
MaxCountN == 72
\* the most notes of a pattern the caller builds from durations
MaxNotes == 3
\* the most characters of a string the caller parses
MaxChars == 2
\* the most Pattern objects the caller holds at a time
MaxObjects == 2
\* the most calls of play_pattern that are remembered
MaxPlays == 3

(***************************************************************************)
(* Python's int: arbitrary precision.  A natural number is the sequence of *)
(* its digits in base 2^14, least significant first, without leading       *)
(* zeros (so 0 is the empty sequence).                                     *)
(***************************************************************************)
LimbBits == 14

Base == 2^LimbBits

\* the digits as a list, every one computed
Digits(a) == <<>> \o a

Limb(a, i) == IF i >= 1 /\ i <= Len(a) THEN a[i] ELSE 0

MaxOf(x, y) == IF x >= y THEN x ELSE y

MinOf(x, y) == IF x <= y THEN x ELSE y

RECURSIVE Strip(_)
Strip(a) ==
    IF a = <<>> THEN a
    ELSE IF a[Len(a)] = 0 THEN Strip(SubSeq(a, 1, Len(a) - 1))
    ELSE a

\* one round of carries over column sums (each may exceed the base, or be
\* negative in a subtraction): every column keeps its digit and hands the
\* rest to the next
ColPass(cols) ==
    Digits([i \in 1..(Len(cols) + 1) |->
        (Limb(cols, i) % Base) + (IF i > 1 THEN cols[i - 1] \div Base ELSE 0)])

\* rounds of carries until every column is a digit
RECURSIVE Carry(_)
Carry(cols) ==
    IF \A i \in 1..Len(cols) : cols[i] >= 0 /\ cols[i] < Base
    THEN cols
    ELSE Carry(ColPass(cols))

BigNorm(cols) == Strip(Carry(Digits(cols)))

BigAdd(a, b) ==
    BigNorm([i \in 1..MaxOf(Len(a), Len(b)) |-> Limb(a, i) + Limb(b, i)])

\* a - b for a >= b
BigSub(a, b) ==
    BigNorm([i \in 1..MaxOf(Len(a), Len(b)) |-> Limb(a, i) - Limb(b, i)])

RECURSIVE ColSum(_, _, _, _)
ColSum(a, b, k, j) ==
    IF j > Len(b) THEN 0
    ELSE Limb(a, k - j + 1) * b[j] + ColSum(a, b, k, j + 1)

\* a * b, for b of at most 7 digits (a column sum stays below 2^31)
BigMul(a, b) ==
    BigNorm([k \in 1..(Len(a) + Len(b)) |-> ColSum(a, b, k, 1)])

RECURSIVE CmpFrom(_, _, _)
CmpFrom(a, b, i) ==
    IF i = 0 THEN 0
    ELSE IF a[i] > b[i] THEN 1
    ELSE IF a[i] < b[i] THEN -1
    ELSE CmpFrom(a, b, i - 1)

\* -1, 0, 1 as a < b, a = b, a > b
BigCmp(a, b) ==
    IF Len(a) > Len(b) THEN 1
    ELSE IF Len(a) < Len(b) THEN -1
    ELSE CmpFrom(a, b, Len(a))

\* a * 2^k
BigShl(a, k) ==
    LET q == k \div LimbBits
        r == k % LimbBits
    IN  BigNorm([i \in 1..(Len(a) + q) |->
                    IF i <= q THEN 0 ELSE a[i - q] * 2^r])

\* floor(a / 2^k)
BigShr(a, k) ==
    LET q == k \div LimbBits
        r == k % LimbBits
    IN  IF q >= Len(a) THEN <<>>
        ELSE Strip(Digits([i \in 1..(Len(a) - q) |->
                      (a[i + q] \div 2^r)
                      + (Limb(a, i + q + 1) % 2^r) * 2^(LimbBits - r)]))

RECURSIVE SmallBits(_)
SmallBits(x) == IF x = 0 THEN 0 ELSE 1 + SmallBits(x \div 2)

\* the number of binary digits of a
BitLen(a) ==
    IF a = <<>> THEN 0
    ELSE LimbBits * (Len(a) - 1) + SmallBits(a[Len(a)])

BigIsOdd(a) == a /= <<>> /\ a[1] % 2 = 1

\* a * m^k, for m of at most 7 digits: half of the k multiplications, then
\* (MulRest) the others, unless the product is 0 already
RECURSIVE MulPow(_, _, _)
RECURSIVE MulRest(_, _, _)
MulPow(a, m, k) ==
    IF k = 0 THEN a
    ELSE IF k = 1 THEN BigMul(a, m)
    ELSE MulRest(MulPow(a, m, k \div 2), m, k - k \div 2)

MulRest(a, m, k) == IF a = <<>> THEN a ELSE MulPow(a, m, k)

\* m^n, for m of at most 7 digits
BigPow(m, n) ==
    IF m = <<>> THEN (IF n = 0 THEN <<1>> ELSE <<>>) ELSE MulPow(<<1>>, m, n)

\* the int of a small natural number of the model
BigOfNat(k) == BigNorm(<<k>>)

\* the natural number a, for a below 2^28
BigToNat(a) == Limb(a, 1) + Base * Limb(a, 2)

(***************************************************************************)
(* Python's float: an IEEE-754 binary64.  A float is sign s (-1, 0 or 1)   *)
(* and, when it is not zero, s * m * 2^e with m a 53-bit natural number.   *)
(* Every operation returns the exact result rounded to the nearest float,  *)
(* ties to even.                                                           *)
(***************************************************************************)
MantBits == 53

FZero == [s |-> 0, m |-> <<>>, e |-> 0]

\* s * (m + f) * 2^e rounded to a float, where 0 <= f < 1 and sticky tells
\* whether f > 0; sticky needs m of at least 55 bits
RoundFit(s, q1, e) ==
    IF BitLen(q1) > MantBits
    THEN [s |-> s, m |-> BigShr(q1, 1), e |-> e + 1]
    ELSE [s |-> s, m |-> q1, e |-> e]

\* c compares the bits cut off with half a unit of the last place kept
RoundUp(s, q, c, e, sticky) ==
    RoundFit(s, IF c > 0 \/ (c = 0 /\ (sticky \/ BigIsOdd(q)))
                THEN BigAdd(q, <<1>>) ELSE q, e)

\* q is m without its last sh bits
RoundCut(s, m, q, sh, e, sticky) ==
    RoundUp(s, q, BigCmp(BigSub(m, BigShl(q, sh)), BigShl(<<1>>, sh - 1)),
            e + sh, sticky)

RoundNE(s, m, e, sticky) ==
    LET L == BitLen(m)
    IN  IF m = <<>> THEN FZero
        ELSE IF L <= MantBits
        THEN [s |-> s, m |-> BigShl(m, MantBits - L), e |-> e - (MantBits - L)]
        ELSE RoundCut(s, m, BigShr(m, L - MantBits), L - MantBits, e, sticky)

FOfInt(k) ==
    IF k = 0 THEN FZero
    ELSE RoundNE(IF k < 0 THEN -1 ELSE 1,
                 BigOfNat(IF k < 0 THEN -k ELSE k), 0, FALSE)

FNeg(x) == [x EXCEPT !.s = -x.s]

\* xs * X * 2^e + ys * Y * 2^e rounded to a float, for xs and ys not 0
FAddAligned(xs, X, ys, Y, e) ==
    LET c == BigCmp(X, Y)
    IN  IF xs /= ys /\ c = 0 THEN FZero
        ELSE RoundNE(IF xs = ys \/ c > 0 THEN xs ELSE ys,
                     IF xs = ys THEN BigAdd(X, Y)
                     ELSE IF c > 0 THEN BigSub(X, Y) ELSE BigSub(Y, X),
                     e, FALSE)

FAdd(x, y) ==
    IF x.s = 0 THEN y
    ELSE IF y.s = 0 THEN x
    ELSE FAddAligned(x.s, BigShl(x.m, x.e - MinOf(x.e, y.e)),
                     y.s, BigShl(y.m, y.e - MinOf(x.e, y.e)),
                     MinOf(x.e, y.e))

FSub(x, y) == FAdd(x, FNeg(y))

\* the next bit of the quotient q of a binary long division by d, where
\* r2 is the remainder, doubled
DivBit(d, q, r2) ==
    IF BigCmp(r2, d) >= 0
    THEN [r |-> BigSub(r2, d), q |-> BigAdd(BigAdd(q, q), <<1>>)]
    ELSE [r |-> r2, q |-> BigAdd(q, q)]

\* one step of binary long division by d
DivStep(d, st) == DivBit(d, st.q, BigAdd(st.r, st.r))

\* k steps of binary long division of r * 2^k by d, for r < d: half of the
\* steps, then (DivRest) the others, the remainder being below d still
RECURSIVE DivSteps(_, _, _)
RECURSIVE DivRest(_, _, _)
DivSteps(d, st, k) ==
    IF k = 0 THEN st
    ELSE IF k = 1 THEN DivStep(d, st)
    ELSE DivRest(d, DivSteps(d, st, k \div 2), k - k \div 2)

DivRest(d, st, k) == IF BigCmp(st.r, d) < 0 THEN DivSteps(d, st, k) ELSE st

GuardBits == MantBits + 3

\* s * q * 2^e rounded to a float, for the quotient qr.q and the remainder
\* qr.r of a long division
FDivRound(s, qr, e) == RoundNE(s, qr.q, e, qr.r /= <<>>)

\* s * (xm * 2^xe) / (ym * 2^ye) rounded to a float
FDivRaw(s, xm, xe, ym, ye) ==
    LET lx == BitLen(xm)
        ly == BitLen(ym)
        L == MaxOf(lx, ly)
    IN  FDivRound(s, DivSteps(BigShl(ym, L - ly + 1),
                              [r |-> BigShl(xm, L - lx), q |-> <<>>],
                              GuardBits),
                  (xe - (L - lx)) - (ye - (L - ly + 1)) - GuardBits)

FDiv(x, y) ==
    IF x.s = 0 THEN FZero ELSE FDivRaw(x.s * y.s, x.m, x.e, y.m, y.e)

\* x ** n for a float x /= 0 and an int n
FPow(x, n) ==
    LET k == IF n < 0 THEN -n ELSE n
        s == IF x.s < 0 /\ k % 2 = 1 THEN -1 ELSE 1
    IN  IF n >= 0 THEN RoundNE(s, BigPow(x.m, k), x.e * k, FALSE)
        ELSE FDivRaw(s, <<1>>, 0, BigPow(x.m, k), x.e * k)

\* int(x): the float truncated towards zero, a signed int
SignedInt(s, mag) == [s |-> IF mag = <<>> THEN 0 ELSE s, mag |-> mag]

FTrunc(x) ==
    SignedInt(x.s, IF x.s = 0 THEN <<>>
                   ELSE IF x.e >= 0 THEN BigShl(x.m, x.e)
                   ELSE BigShr(x.m, -x.e))

\* 5**0.5 = 0x1.1e3779b97f4a8p+1, the float nearest the square root of 5
Sqrt5 == [s |-> 1, m |-> <<13480, 11871, 14201, 1144>>, e |-> -51]

(***************************************************************************)
(* PatternGenerator's count.                                               *)
(***************************************************************************)
\* phi = (5**0.5 + 1)/2
phi == FDiv(FAdd(Sqrt5, FOfInt(1)), FOfInt(2))

\* int((phi**n - (-phi)**(-n)) / 5**0.5)
_fib(n) ==
    FTrunc(FDiv(FSub(FPow(phi, n), FPow(FNeg(phi), -n)), Sqrt5))

n_combos(pattern_length) == _fib(pattern_length + 1)

(***************************************************************************)
(* Note and Pattern.  A Pattern is the sequence of its notes; a string is  *)
(* the sequence of its characters.                                         *)
(***************************************************************************)
\* Note.representations, the default alphabet
representations == <<".", "-">>

\* {length: string for length, string in enumerate(representations, start=1)}
decode_mapping(reps) == [length \in 1..Len(reps) |-> reps[length]]

\* Note(length): the default alphabet gives the symbol
Note(length) ==
    [length |-> length, symbol |-> decode_mapping(representations)[length]]

is_single(note) == note.length = 1

is_double(note) == note.length = 2

\* "".join(...)
RECURSIVE Join(_)
Join(symbols) ==
    IF symbols = <<>> THEN "" ELSE Head(symbols) \o Join(Tail(symbols))

\* str(pattern), with the default separator ""
PatternStr(pattern) == Join([i \in 1..Len(pattern) |-> pattern[i].symbol])

\* no alphabet: the default of Pattern.from_string's representations
NoAlphabet == <<"None">>

\* {string: length for length, string in enumerate(representations,
\* start=1)}: of two equal characters the later one stays
encode_mapping(reps) ==
    [string \in {reps[i] : i \in 1..Len(reps)} |->
        CHOOSE length \in 1..Len(reps) :
            /\ reps[length] = string
            /\ \A other \in 1..Len(reps) : reps[other] = string => other <= length]

\* Note(length, representations): the symbol is looked up in the alphabet
\* passed, which is not looked at otherwise
Note__init__(length, reps) ==
    IF reps = NoAlphabet THEN [status |-> "TypeError"]
    ELSE IF length \notin DOMAIN decode_mapping(reps) THEN [status |-> "KeyError"]
    ELSE [status |-> "ok",
          note |-> [length |-> length,
                    symbol |-> decode_mapping(reps)[length],
                    _representations |-> reps]]

\* Note.from_string(note_string, representations, display_default)
Note_from_string(note_string, reps, display_default) ==
    IF reps = NoAlphabet THEN [status |-> "TypeError"]
    ELSE IF note_string \notin DOMAIN encode_mapping(reps) THEN [status |-> "KeyError"]
    ELSE Note__init__(encode_mapping(reps)[note_string],
                      IF display_default THEN representations ELSE reps)

\* the characters of str(pattern): the symbols of the notes, the separator
\* being ""
Pattern__str__(notes) == [i \in 1..Len(notes) |-> notes[i].symbol]

\* Pattern.from_string(pattern_string, representations, display_default):
\* the notes of the characters in order, or the error of the first character
\* that has none
RECURSIVE Pattern_from_string(_, _, _)
Pattern_from_string(pattern_string, reps, display_default) ==
    IF pattern_string = <<>> THEN [status |-> "ok", notes |-> <<>>]
    ELSE LET first == Note_from_string(Head(pattern_string), reps, display_default)
             rest == Pattern_from_string(Tail(pattern_string), reps, display_default)
         IN  IF first.status /= "ok" THEN [status |-> first.status]
             ELSE IF rest.status /= "ok" THEN rest
             ELSE [status |-> "ok", notes |-> <<first.note>> \o rest.notes]

\* Pattern.__add__(self, other): other is a Note (its kind is "Note"; a Note
\* cannot be iterated, and it.chain is read by list()), a Pattern, or
\* something else, for which nothing is returned
Pattern__add__(self, other) ==
    IF other.kind = "Note" THEN [status |-> "TypeError"]
    ELSE IF other.kind = "Pattern"
    THEN [status |-> "ok", kind |-> "Pattern", notes |-> self.notes \o other.notes]
    ELSE [status |-> "ok", kind |-> "None"]

\* p == q: Pattern defines no __eq__, so equal is the same object; a and b
\* are the objects' places among the objects the caller holds
Pattern__eq__(a, b) == a = b

(***************************************************************************)
(* MidiSynthesizer.                                                        *)
(***************************************************************************)
\* SynthVelocities(), the defaults
SynthVelocities == [accent |-> 127, normal |-> 100, soft |-> 50]

\* MidiSynthesizer(note_number, velocities, voice)
MidiSynthesizer(note_number, velocities, voice) ==
    [note_number |-> note_number, velocities |-> velocities, voice |-> voice]

Midi(voice, note_number, velocity) ==
    [voice |-> voice, note_number |-> note_number, velocity |-> velocity]

\* play_note with the two events of a long note in the other order
play_note_soft_first(self, note, follows_double) ==
    IF is_single(note)
    THEN <<Midi(self.voice, self.note_number,
                IF follows_double THEN self.velocities.accent
                ELSE self.velocities.normal)>>
    ELSE IF is_double(note)
    THEN <<Midi(self.voice, self.note_number, self.velocities.soft),
           Midi(self.voice, self.note_number, self.velocities.normal)>>
    ELSE <<>>

\* play_note with one event for a long note
play_note_one_event(self, note, follows_double) ==
    IF is_single(note)
    THEN <<Midi(self.voice, self.note_number,
                IF follows_double THEN self.velocities.accent
                ELSE self.velocities.normal)>>
    ELSE IF is_double(note)
    THEN <<Midi(self.voice, self.note_number, self.velocities.normal)>>
    ELSE <<>>

\* play_note(note, follows_double): the events of one note; a note that is
\* neither single nor double has none
play_note(self, note, follows_double) ==
    IF is_single(note)
    THEN <<Midi(self.voice, self.note_number,
                IF follows_double THEN self.velocities.accent
                ELSE self.velocities.normal)>>
    ELSE IF is_double(note)
    THEN <<Midi(self.voice, self.note_number, self.velocities.normal),
           Midi(self.voice, self.note_number, self.velocities.soft)>>
    ELSE <<>>

\* the first note's follows_double kept from the call before
first_follows_double_kept(prior) == prior

\* play_note(first_note): follows_double has its default, False, whether
\* the pattern played before (prior) ended with a double note or not
first_follows_double(prior) == FALSE

\* for prev, curr in zip(pattern_prev, pattern_curr):
\*     yield from self.play_note(curr, follows_double=prev.is_double)
RECURSIVE play_rest(_, _, _)
play_rest(self, notes, i) ==
    IF i > Len(notes) THEN <<>>
    ELSE play_note(self, notes[i], is_double(notes[i - 1]))
         \o play_rest(self, notes, i + 1)

\* list(self.play_pattern(pattern)): next(pattern_curr) on a pattern without
\* notes raises StopIteration inside the generator, which the caller gets
\* as a RuntimeError
play_pattern(self, notes, prior) ==
    IF notes = <<>> THEN [status |-> "RuntimeError", events |-> <<>>]
    ELSE [status |-> "ok",
          events |-> play_note(self, notes[1], first_follows_double(prior))
                     \o play_rest(self, notes, 2)]

(***************************************************************************)
(* The enumeration: _note_counts, _generate_pattern, _all_patterns.  The   *)
(* iterator _all_patterns() returns is lazy: its state is the group (an    *)
(* index into _note_counts) it is in and the combination that comes next;  *)
(* a group beyond the last means it is exhausted.                          *)
(***************************************************************************)
\* range(start, stop, step) for a negative step
RECURSIVE RangeDown(_, _, _)
RangeDown(start, stop, step) ==
    IF start > stop
    THEN <<start>> \o RangeDown(start + step, stop, step)
    ELSE <<>>

\* _note_counts with range(pattern_length, 0, -2): the stop is one too high
_note_counts_stop0(length) ==
    LET r == RangeDown(length, 0, -2)
    IN  [i \in 1..Len(r) |-> [singles |-> r[i], doubles |-> i - 1]]

\* _note_counts yielding n_doubles, n_singles: the pair is the wrong way round
_note_counts_swapped(length) ==
    LET r == RangeDown(length, -1, -2)
    IN  [i \in 1..Len(r) |-> [singles |-> i - 1, doubles |-> r[i]]]

\* enumerate(range(pattern_length, -1, -2)): n_doubles counts from 0
_note_counts(length) ==
    LET r == RangeDown(length, -1, -2)
    IN  [i \in 1..Len(r) |-> [singles |-> r[i], doubles |-> i - 1]]

\* itertools.combinations(range(n), r), by its documented algorithm: it
\* starts at 0, 1, ..., r-1; then the rightmost index that is not yet at
\* its last value is advanced and the indices after it follow it
combinations_first(r) == [j \in 1..r |-> j - 1]

Pivot(indices, n, r) ==
    LET movable == {k \in 1..r : indices[k] /= (k - 1) + n - r}
    IN  IF movable = {} THEN 0
        ELSE CHOOSE k \in movable : \A j \in movable : j <= k

Advance(indices, k) ==
    [j \in 1..Len(indices) |->
        IF j < k THEN indices[j] ELSE indices[k] + 1 + (j - k)]

\* _generate_pattern with notes[-1 - position] = Note(2): the positions are
\* counted from the end
_generate_pattern_mirrored(counts, positions) ==
    [i \in 1..(counts.singles + counts.doubles) |->
        IF \E k \in 1..Len(positions) :
              positions[k] = (counts.singles + counts.doubles) - i
        THEN Note(2) ELSE Note(1)]

\* notes = [Note(1)] * n_notes, then notes[position] = Note(2) for each of
\* the positions of one combination
_generate_pattern(counts, positions) ==
    [i \in 1..(counts.singles + counts.doubles) |->
        IF \E k \in 1..Len(positions) : positions[k] = i - 1
        THEN Note(2) ELSE Note(1)]

\* the iterator at the start of group g
EnterGroup(length, g) ==
    LET groups == _note_counts(length)
    IN  IF g > Len(groups) THEN [grp |-> g, indices |-> <<>>]
        ELSE [grp |-> g, indices |-> combinations_first(groups[g].doubles)]

\* Patterns(it.chain.from_iterable(...)): the iterator, nothing consumed
_all_patterns(length) == EnterGroup(length, 1)

\* one next() on the iterator: its state after it, and what it yielded
\* (nothing: it is exhausted)
chain_next(length, st) ==
    LET groups == _note_counts(length)
    IN  IF st.grp > Len(groups) THEN [st |-> st, out |-> <<>>]
        ELSE LET counts == groups[st.grp]
                 k == Pivot(st.indices, counts.singles + counts.doubles,
                            counts.doubles)
             IN  [st |-> IF k = 0 THEN EnterGroup(length, st.grp + 1)
                         ELSE [grp |-> st.grp, indices |-> Advance(st.indices, k)],
                  out |-> <<_generate_pattern(counts, st.indices)>>]

\* up to k next() on the iterator (k < 0: until it is exhausted)
RECURSIVE Take(_, _, _)
Take(length, st, k) ==
    IF k = 0 THEN [st |-> st, out |-> <<>>]
    ELSE LET r == chain_next(length, st)
         IN  IF r.out = <<>> THEN r
             ELSE LET t == Take(length, r.st, k - 1)
                  IN  [st |-> t.st, out |-> r.out \o t.out]

\* list(...) of a new iterator: the enumeration of the space
Enumeration(length) == Take(length, _all_patterns(length), -1).out

(***************************************************************************)
(* itertools.islice and the generators.                                    *)
(***************************************************************************)
\* None, as a slice's start, stop or step
None == -1

\* an islice over a copy of the iterator (it.tee): what it reads stays in
\* the iterator for the other readers
islice_next_copy(h, length, st) ==
    LET s == Take(length, st, IF h.cnt < h.next THEN h.next - h.cnt ELSE 0)
        y == chain_next(length, s.st)
    IN  IF ~h.live \/ y.out = <<>> \/ (h.stop /= None /\ h.cnt >= h.stop)
        THEN [h |-> [h EXCEPT !.live = FALSE], st |-> st, out |-> <<>>, used |-> 0]
        ELSE [h |-> [h EXCEPT !.cnt = @ + 1], st |-> st, out |-> y.out, used |-> 0]

\* one next() on an islice object h over the iterator in state st: the
\* islice and the iterator after it, and what was yielded (nothing:
\* StopIteration)
islice_next(h, length, st) ==
    LET skip == IF h.cnt < h.next THEN h.next - h.cnt ELSE 0
        s == Take(length, st, skip)
        cnt1 == h.cnt + Len(s.out)
        y == chain_next(length, s.st)
        nxt == h.next + h.step
    IN  IF ~h.live THEN [h |-> h, st |-> st, out |-> <<>>, used |-> 0]
        ELSE IF Len(s.out) < skip \/ (h.stop /= None /\ cnt1 >= h.stop)
        THEN [h |-> [h EXCEPT !.cnt = cnt1, !.live = FALSE],
              st |-> s.st, out |-> <<>>, used |-> Len(s.out)]
        ELSE IF y.out = <<>>
        THEN [h |-> [h EXCEPT !.cnt = cnt1, !.live = FALSE],
              st |-> y.st, out |-> <<>>, used |-> Len(s.out)]
        ELSE [h |-> [h EXCEPT !.cnt = cnt1 + 1,
                              !.next = IF h.stop /= None /\ nxt > h.stop
                                       THEN h.stop ELSE nxt],
              st |-> y.st, out |-> y.out, used |-> Len(s.out) + 1]

\* a generator running "yield from self._all_patterns()": it reads an
\* iterator of its own, and the space's stays where it was
generator_next_fresh(h, length, st) ==
    [h |-> h, st |-> st, out |-> chain_next(length, _all_patterns(length)).out,
     used |-> 0]

\* one next() on a generator running "yield from self.patterns"
generator_next(h, length, st) ==
    LET y == chain_next(length, st)
    IN  IF ~h.live THEN [h |-> h, st |-> st, out |-> <<>>, used |-> 0]
        ELSE IF y.out = <<>>
        THEN [h |-> [h EXCEPT !.live = FALSE], st |-> y.st, out |-> <<>>, used |-> 0]
        ELSE [h |-> h, st |-> y.st, out |-> y.out, used |-> 1]

(***************************************************************************)
(* The state.                                                              *)
(*   pattern_length  self.pattern_length                                   *)
(*   patterns        self.patterns: which iterator the space reads         *)
(*   chain           every iterator _all_patterns() made that is still     *)
(*                   referenced: st is its state, pos counts the patterns  *)
(*                   that have left it; by and after record who made it    *)
(*                   and how far its predecessor was                       *)
(*   handles         the iterator objects the caller holds: generators of  *)
(*                   iter(space) and the islices of head(n) and space[a:b] *)
(*   result          the outcome of the last call that returned or raised  *)
(***************************************************************************)
VARIABLES pattern_length, patterns, chain, handles, result,
          heap, reply, log

vars == <<pattern_length, patterns, chain, handles, result, heap, reply, log>>

\* the Pattern objects the caller holds, the outcome of the caller's last
\* call on them, and the calls of play_pattern so far
bench == <<heap, reply, log>>

NoReply == [op |-> "none"]

\* the caller holds one iterator object at a time
HandleIds == {1}

\* the iterator the space reads, and the one the caller's object reads
ChainIds == {1, 2}

FreeChain ==
    [st |-> [grp |-> 0, indices |-> <<>>], pos |-> 0, by |-> "free", after |-> 0,
     chosen |-> FALSE]

NoHandle ==
    [kind |-> "none", origin |-> "none", src |-> 0, lo |-> 0, next |-> 0,
     stop |-> None, step |-> 1, cnt |-> 0, live |-> FALSE, start0 |-> 0,
     taken |-> 0, got |-> <<>>, asked |-> 0]

NoNum == [s |-> 0, mag |-> <<>>]

NoResult ==
    [op |-> "none", arg |-> 0, status |-> "ok", value |-> <<>>,
     num |-> NoNum, at |-> 0, by |-> "none"]

\* an iterator no handle and not the space refers to is gone
Collect(ch, cur, hs) ==
    [c \in ChainIds |->
        IF c = cur \/ \E h \in HandleIds : hs[h].kind /= "none" /\ hs[h].src = c
        THEN ch[c] ELSE FreeChain]

\* __init__: self.patterns = self._all_patterns(); no length is refused
Constructed(lengths) ==
    /\ pattern_length \in lengths
    /\ patterns = 1
    /\ chain = [c \in ChainIds |->
                  IF c = 1
                  THEN [st |-> _all_patterns(pattern_length), pos |-> 0,
                        by |-> "init", after |-> 0, chosen |-> FALSE]
                  ELSE FreeChain]
    /\ handles = [h \in HandleIds |-> NoHandle]
    /\ result = NoResult
    /\ heap = <<>>
    /\ reply = NoReply
    /\ log = <<>>

Init == Constructed((-MaxNeg)..MaxN)

\* the caller's next free slot for an iterator object
FreeSlot(h) ==
    /\ handles[h].kind = "none"
    /\ \A g \in HandleIds : g < h => handles[g].kind /= "none"

NewHandle(kind, origin, lo, stop, step) ==
    [kind |-> kind, origin |-> origin, src |-> 0, lo |-> lo, next |-> lo,
     stop |-> stop, step |-> step, cnt |-> 0, live |-> TRUE, start0 |-> 0,
     taken |-> 0, got |-> <<>>, asked |-> 0]

\* Fibonacci(n) under Fib(1) = Fib(2) = 1
RECURSIVE Fibonacci(_)
Fibonacci(n) ==
    IF n <= 0 THEN 0
    ELSE IF n <= 2 THEN 1
    ELSE Fibonacci(n - 1) + Fibonacci(n - 2)

\* the numbers the caller passes as an index or a size go up to one past
\* the size of the space
MaxArg == Fibonacci(pattern_length + 1) + 1

\* a call's outcome; at and by record the iterator the call found: how many
\* patterns had left it, and who had made it
Outcome(op, arg, status, value, c) ==
    [op |-> op, arg |-> arg, status |-> status, value |-> value,
     num |-> NoNum, at |-> c.pos, by |-> c.by]

\* iter(space): a generator that has not started
Iter ==
    \E h \in HandleIds :
        /\ FreeSlot(h)
        /\ handles' = [handles EXCEPT ![h] = NewHandle("iter", "iter", 0, None, 1)]
        /\ UNCHANGED <<pattern_length, patterns, chain, result, bench>>

\* space[start:stop:step]: Patterns(it.islice(self, start, stop, step))
slice_islice(origin, start, stop, step) ==
    NewHandle("islice", origin,
              IF start = None THEN 0 ELSE start,
              stop,
              IF step = None THEN 1 ELSE step)

SliceStarts == {None, 0, 1}

SliceSteps == {None, 2}

Slice ==
    \E h \in HandleIds, start \in SliceStarts, stop \in 0..MaxArg, step \in SliceSteps :
        /\ FreeSlot(h)
        /\ handles' = [handles EXCEPT
                         ![h] = [slice_islice("slice", start, stop, step)
                                    EXCEPT !.asked = stop]]
        /\ UNCHANGED <<pattern_length, patterns, chain, result, bench>>

\* head with self[:n + 1]: one pattern too many
head_one_more(n) == slice_islice("head", None, n + 1, None)

\* head(n): Patterns(self[:n])
head(n) == slice_islice("head", None, n, None)

Head_ ==
    \E h \in HandleIds, n \in 0..MaxArg :
        /\ FreeSlot(h)
        /\ handles' = [handles EXCEPT ![h] = [head(n) EXCEPT !.asked = n]]
        /\ UNCHANGED <<pattern_length, patterns, chain, result, bench>>

\* next() on an iterator object of the caller; a generator reads
\* self.patterns when it starts, and keeps that iterator from then on
Pull ==
    \E h \in HandleIds :
        /\ handles[h].kind /= "none"
        /\ LET old == handles[h]
               c == IF old.src = 0 THEN patterns ELSE old.src
               r == IF old.kind = "iter"
                    THEN generator_next(old, pattern_length, chain[c].st)
                    ELSE islice_next(old, pattern_length, chain[c].st)
               new == [r.h EXCEPT
                         !.src = c,
                         !.start0 = IF old.src = 0 THEN chain[c].pos ELSE @,
                         !.taken = @ + r.used,
                         !.got = @ \o r.out]
           IN  /\ handles' = [handles EXCEPT ![h] = new]
               /\ chain' = [chain EXCEPT ![c].st = r.st, ![c].pos = @ + r.used]
               /\ result' = Outcome("next", h,
                                    IF r.out = <<>> THEN "StopIteration" ELSE "ok",
                                    r.out, chain[c])
        /\ UNCHANGED <<pattern_length, patterns, bench>>

\* the caller drops an iterator object
Discard ==
    \E h \in HandleIds :
        /\ handles[h].kind /= "none"
        /\ handles' = [handles EXCEPT ![h] = NoHandle]
        /\ chain' = Collect(chain, patterns, handles')
        /\ UNCHANGED <<pattern_length, patterns, result, bench>>

\* next(iter(space)): one step of a loop over the space itself
Step ==
    LET r == generator_next(NewHandle("iter", "iter", 0, None, 1),
                            pattern_length, chain[patterns].st)
    IN  /\ chain' = [chain EXCEPT ![patterns].st = r.st, ![patterns].pos = @ + r.used]
        /\ result' = Outcome("step", 0,
                             IF r.out = <<>> THEN "StopIteration" ELSE "ok",
                             r.out, chain[patterns])
        /\ UNCHANGED <<pattern_length, patterns, handles, bench>>

\* space[index]: next(it.islice(self.patterns, index, index + 1))
getitem_islice(index) == NewHandle("islice", "getitem", index, index + 1, 1)

\* __getitem__ with next(..., None): a default instead of StopIteration
getitem_status_default(out) == "ok"

\* next() returns the item, or raises StopIteration out of __getitem__
getitem_status(out) == IF out = <<>> THEN "StopIteration" ELSE "ok"

GetItem ==
    \E index \in (-1)..MaxArg :
        /\ IF index < 0
           THEN /\ result' = Outcome("getitem", index, "ValueError", <<>>,
                                     chain[patterns])
                /\ chain' = chain
           ELSE LET r == islice_next(getitem_islice(index), pattern_length,
                                     chain[patterns].st)
                IN  /\ chain' = [chain EXCEPT ![patterns].st = r.st,
                                              ![patterns].pos = @ + r.used]
                    /\ result' = Outcome("getitem", index, getitem_status(r.out),
                                         r.out, chain[patterns])
        /\ UNCHANGED <<pattern_length, patterns, handles, bench>>

\* choose with list(self._all_patterns()): a new iterator instead of the
\* space's
choose_population_fresh(items) == Enumeration(pattern_length)

\* list(self): what random.choices draws from
choose_population(items) == items

\* list(self) read from a copy: the space's iterator stays where it was
list_self_copy(length, st) == [Take(length, st, -1) EXCEPT !.st = st]

\* list(self): every pattern the space's iterator has left, and the iterator
\* at its end
list_self(length, st) == Take(length, st, -1)

\* choose(n_choices): random.choices(list(self), k=n_choices); any draw may
\* come out
Choose ==
    \E k \in 0..MaxChoices :
        LET all == list_self(pattern_length, chain[patterns].st)
            population == choose_population(all.out)
        IN  /\ chain' = [chain EXCEPT ![patterns].st = all.st,
                                      ![patterns].pos = @ + Len(all.out),
                                      ![patterns].chosen =
                                          @ \/ ~(population = <<>> /\ k > 0)]
            /\ IF population = <<>> /\ k > 0
               THEN result' = Outcome("choose", k, "IndexError", <<>>,
                                      chain[patterns])
               ELSE \E draw \in [1..k -> 1..Len(population)] :
                       result' = Outcome("choose", k, "ok",
                                         [i \in 1..k |-> population[draw[i]]],
                                         chain[patterns])
            /\ UNCHANGED <<pattern_length, patterns, handles, bench>>

\* reset with self.patterns = Patterns(self.patterns): the old iterator,
\* wrapped again
reset_chain_same(length, old) ==
    [st |-> old.st, pos |-> 0, by |-> "reset", after |-> old.pos,
     chosen |-> FALSE]

\* the iterator reset() stores: self._all_patterns(), nothing consumed
reset_chain(length, old) ==
    [st |-> _all_patterns(length), pos |-> 0, by |-> "reset", after |-> old.pos,
     chosen |-> FALSE]

\* reset(): self.patterns = self._all_patterns()
Reset ==
    LET held == {handles[h].src : h \in {g \in HandleIds : handles[g].kind /= "none"}}
        c == IF patterns \notin held THEN patterns
             ELSE CHOOSE d \in ChainIds \ held : \A e \in ChainIds \ held : d <= e
    IN  /\ patterns' = c
        /\ chain' = Collect([chain EXCEPT ![c] = reset_chain(pattern_length, chain[patterns])],
                            c, handles)
        /\ result' = Outcome("reset", pattern_length, "ok", <<>>, chain[patterns])
        /\ UNCHANGED <<pattern_length, handles, bench>>

\* len(space): __len__ returns n_combos(self.pattern_length), and len()
\* refuses a negative one
LenOutcome(num, c) ==
    [op |-> "len", arg |-> 0, status |-> IF num.s < 0 THEN "ValueError" ELSE "ok",
     value |-> <<>>, num |-> num, at |-> c.pos, by |-> c.by]

Len_ ==
    /\ result' = LenOutcome(n_combos(pattern_length), chain[patterns])
    /\ UNCHANGED <<pattern_length, patterns, chain, handles, bench>>

Next ==
    \/ Iter
    \/ Slice
    \/ Head_
    \/ Pull
    \/ Discard
    \/ Step
    \/ GetItem
    \/ Choose
    \/ Reset
    \/ Len_

Spec == Init /\ [][Next]_vars

(***************************************************************************)
(* Enumeration: a space of any length up to MaxEnumN is iterated by a      *)
(* generator, and reset.                                                   *)
(***************************************************************************)
InitEnum == Constructed(0..MaxEnumN)

NextEnum ==
    \/ Iter
    \/ Pull
    \/ Discard
    \/ Reset

SpecEnum == InitEnum /\ [][NextEnum]_vars

(***************************************************************************)
(* Indexing: space[index], loops over the space, and reset.                *)
(***************************************************************************)
NextIndex ==
    \/ GetItem
    \/ Step
    \/ Reset

SpecIndex == Init /\ [][NextIndex]_vars

(***************************************************************************)
(* Slicing: head(n) and space[a:b:c], read while the space is also read    *)
(* directly, and reset.                                                    *)
(***************************************************************************)
NextHead ==
    \/ Head_
    \/ Slice
    \/ Pull
    \/ Discard
    \/ Step
    \/ Reset

SpecHead == Init /\ [][NextHead]_vars

(***************************************************************************)
(* Sampling: choose(n_choices), loops over the space, and reset.           *)
(***************************************************************************)
NextChoose ==
    \/ Choose
    \/ Step
    \/ Reset

SpecChoose == Init /\ [][NextChoose]_vars

(***************************************************************************)
(* Reset: the cursor is moved by iteration, indexing and sampling, and     *)
(* reset.                                                                  *)
(***************************************************************************)
NextReset ==
    \/ Iter
    \/ Pull
    \/ Discard
    \/ GetItem
    \/ Choose
    \/ Reset

SpecReset == Init /\ [][NextReset]_vars

(***************************************************************************)
(* Sharing: one iterator, never replaced (no reset, no choose), read by    *)
(* loops over the space, by space[index] and through head(n) and slices.   *)
(***************************************************************************)
NextShare ==
    \/ Iter
    \/ Head_
    \/ Slice
    \/ Pull
    \/ Discard
    \/ Step
    \/ GetItem

SpecShare == Init /\ [][NextShare]_vars

(***************************************************************************)
(* Counting: a space of any length from -MaxNeg to MaxCountN is            *)
(* constructed (its iterator is lazy, nothing is enumerated) and len() is  *)
(* called.                                                                 *)
(***************************************************************************)
InitCount == Constructed((-MaxNeg)..MaxCountN)

NextCount == Len_

SpecCount == InitCount /\ [][NextCount]_vars

(***************************************************************************)
(* Notes, Patterns and the synthesizer in the caller's hands.  heap is the *)
(* Pattern objects the caller holds, in the order they were made: an       *)
(* object is its place in heap, and each one records how it was made.      *)
(***************************************************************************)
\* the characters of the strings and alphabets the caller passes
Chars == {".", "-", "a", "b"}

\* two-character alphabets of two different characters
Alphabets == {representations, <<"a", "b">>, <<"-", ".">>}

\* what else the caller may pass as an alphabet: two equal characters, three
\* characters, one character, None
OtherAlphabets == {<<"a", "a">>, <<"a", "b", "c">>, <<"a">>, NoAlphabet}

SeqsUpTo(S, n) == UNION {[1..m -> S] : m \in 0..n}

\* a new Pattern object
PatternObject(notes, by, reps) ==
    [kind |-> "Pattern", notes |-> notes, by |-> by, reps |-> reps]

\* Pattern(Note(d, alphabet) for d in durations)
NewPatternIn(alphabets, most) ==
    \E durations \in SeqsUpTo({1, 2}, most), reps \in alphabets :
        /\ Len(heap) < MaxObjects
        /\ heap' = Append(heap,
                PatternObject([i \in 1..Len(durations) |->
                                  Note__init__(durations[i], reps).note],
                              "notes", reps))
        /\ reply' = [op |-> "Pattern", status |-> "ok", value |-> Len(heap) + 1]
        /\ UNCHANGED <<pattern_length, patterns, chain, handles, result, log>>

\* with the default alphabet
NewPattern == NewPatternIn({representations}, MaxNotes)

\* with any alphabet of two different characters, to be rendered and parsed
NewPatternAny == NewPatternIn(Alphabets, MaxChars)

\* Note(length, representations)
NewNote ==
    \E length \in (-1)..4, reps \in Alphabets \cup OtherAlphabets :
        /\ reply' = [op |-> "Note", length |-> length, reps |-> reps,
                     made |-> Note__init__(length, reps)]
        /\ UNCHANGED <<pattern_length, patterns, chain, handles, result, heap, log>>

\* Note.from_string(note_string, representations, display_default)
NoteFromString ==
    \E note_string \in Chars, reps \in Alphabets \cup OtherAlphabets,
       display_default \in BOOLEAN :
        /\ reply' = [op |-> "Note.from_string", string |-> note_string,
                     reps |-> reps, display_default |-> display_default,
                     made |-> Note_from_string(note_string, reps, display_default)]
        /\ UNCHANGED <<pattern_length, patterns, chain, handles, result, heap, log>>

\* Pattern.from_string(pattern_string, representations, display_default);
\* without representations the alphabet is None
FromString ==
    \E pattern_string \in SeqsUpTo(Chars, MaxChars),
       reps \in Alphabets \cup {NoAlphabet}, display_default \in BOOLEAN :
        /\ reply' = [op |-> "Pattern.from_string", string |-> pattern_string,
                     reps |-> reps, display_default |-> display_default,
                     made |-> Pattern_from_string(pattern_string, reps,
                                                  display_default)]
        /\ UNCHANGED <<pattern_length, patterns, chain, handles, result, heap, log>>

\* the caller keeps a new object if there is room for one more
Held(object) == IF Len(heap) < MaxObjects THEN Append(heap, object) ELSE heap

\* q = Pattern.from_string(str(p), representations=reps); q == p
RoundTrip ==
    \E p \in 1..Len(heap), reps \in Alphabets :
        LET made == Pattern_from_string(Pattern__str__(heap[p].notes), reps, TRUE)
            q == Len(heap) + 1
        IN  /\ Len(heap) < MaxObjects
            /\ heap' = IF made.status = "ok"
                       THEN Held(PatternObject(made.notes, "from_string", reps))
                       ELSE heap
            /\ reply' = [op |-> "roundtrip", pattern |-> p, reps |-> reps,
                         status |-> made.status,
                         equal |-> made.status = "ok" /\ Pattern__eq__(q, p)]
            /\ UNCHANGED <<pattern_length, patterns, chain, handles, result, log>>

\* a == b for two objects the caller holds
Compare ==
    \E a \in 1..Len(heap), b \in 1..Len(heap) :
        /\ reply' = [op |-> "eq", left |-> a, right |-> b,
                     equal |-> Pattern__eq__(a, b)]
        /\ UNCHANGED <<pattern_length, patterns, chain, handles, result, heap, log>>

\* what the caller adds to a Pattern: a Pattern it holds, or a new Note
Addends ==
    {heap[q] : q \in 1..Len(heap)}
    \cup {[kind |-> "Note", note |-> Note__init__(length, representations).note] :
             length \in {1, 2}}

\* p + other
Add ==
    \E p \in 1..Len(heap), other \in Addends :
        LET sum == Pattern__add__(heap[p], other)
        IN  /\ heap' = IF sum.status = "ok" /\ sum.kind = "Pattern"
                       THEN Held(PatternObject(sum.notes, "add", heap[p].reps))
                       ELSE heap
            /\ reply' = [op |-> "add", left |-> heap[p], right |-> other,
                         sum |-> sum, before |-> heap]
            /\ UNCHANGED <<pattern_length, patterns, chain, handles, result, log>>

\* the caller keeps the pattern that iteration or indexing has just returned
Keep ==
    /\ result.op \in {"step", "getitem", "next"}
    /\ result.status = "ok"
    /\ Len(heap) < MaxObjects
    /\ heap' = Append(heap, PatternObject(result.value[1], "enumeration",
                                          representations))
    /\ reply' = [op |-> "keep", status |-> "ok", value |-> Len(heap) + 1]
    /\ result' = NoResult
    /\ UNCHANGED <<pattern_length, patterns, chain, handles, log>>

\* the synthesizers of the caller: MidiSynthesizer(), and one with every
\* argument given
Synths ==
    {MidiSynthesizer(60, SynthVelocities, 0),
     MidiSynthesizer(36, [accent |-> 120, normal |-> 80, soft |-> 40], 9)}

\* the pattern played last ended with a double note
PriorDouble ==
    /\ log /= <<>>
    /\ log[Len(log)].notes /= <<>>
    /\ is_double(log[Len(log)].notes[Len(log[Len(log)].notes)])

\* list(synth.play_pattern(pattern)) for an object the caller holds
Play ==
    \E p \in 1..Len(heap), self \in Synths :
        /\ Len(log) < MaxPlays
        /\ LET r == play_pattern(self, heap[p].notes, PriorDouble)
           IN  /\ log' = Append(log, [pattern |-> p, synth |-> self,
                                      notes |-> heap[p].notes,
                                      status |-> r.status, events |-> r.events])
               /\ reply' = [op |-> "play_pattern", status |-> r.status,
                            value |-> r.events]
        /\ UNCHANGED <<pattern_length, patterns, chain, handles, result, heap>>

\* the caller lets go of every object
Forget ==
    /\ heap /= <<>>
    /\ heap' = <<>>
    /\ reply' = NoReply
    /\ log' = <<>>
    /\ UNCHANGED <<pattern_length, patterns, chain, handles, result>>
(***************************************************************************)
(* Playing: patterns built from durations, or taken from a space, are      *)
(* played.                                                                 *)
(***************************************************************************)
NextPlay ==
    \/ NewPattern
    \/ Step
    \/ Keep
    \/ Play
    \/ Forget

InitPlay == Constructed(0..MaxN)

SpecPlay == InitPlay /\ [][NextPlay]_vars

(***************************************************************************)
(* Notes and parsing: calls that build a Note, or parse a string.          *)
(***************************************************************************)
InitBench == Constructed({0})

NextParse ==
    \/ NewNote
    \/ NoteFromString
    \/ FromString

SpecParse == InitBench /\ [][NextParse]_vars

(***************************************************************************)
(* Patterns: built from durations, by parsing a rendering, by adding, or   *)
(* taken from a space; compared.                                           *)
(***************************************************************************)
InitPattern == Constructed({MaxN})

NextPattern ==
    \/ NewPatternAny
    \/ RoundTrip
    \/ Add
    \/ Step
    \/ Keep
    \/ Compare
    \/ Forget

SpecPattern == InitPattern /\ [][NextPattern]_vars

(***************************************************************************)
(* What the properties refer to.                                           *)
(***************************************************************************)
\* Fibonacci(n) as a Python int
RECURSIVE BigFibFrom(_, _)
RECURSIVE BigFibRest(_, _)
BigFibFrom(st, k) ==
    IF k = 0 THEN st
    ELSE IF k = 1 THEN [a |-> st.b, b |-> BigAdd(st.a, st.b)]
    ELSE BigFibRest(BigFibFrom(st, k \div 2), k - k \div 2)

\* 0, 0 is followed by 0, 0 only
BigFibRest(st, k) ==
    IF st.a = <<>> /\ st.b = <<>> THEN st ELSE BigFibFrom(st, k)

BigFib(n) == BigFibFrom([a |-> BigOfNat(0), b |-> BigOfNat(1)], n).a

\* the durations of a pattern's notes, and their sum
Durations(pattern) == [i \in 1..Len(pattern) |-> pattern[i].length]

RECURSIVE SumOf(_)
SumOf(durations) ==
    IF durations = <<>> THEN 0 ELSE Head(durations) + SumOf(Tail(durations))

\* every ordered sequence of 1s and 2s summing to n
Compositions(n) ==
    {d \in UNION {[1..m -> {1, 2}] : m \in 0..n} : SumOf(d) = n}

\* the 0-based positions of a pattern's long notes, ascending
RECURSIVE PositionsFrom(_, _)
PositionsFrom(pattern, i) ==
    IF i > Len(pattern) THEN <<>>
    ELSE (IF is_double(pattern[i]) THEN <<i - 1>> ELSE <<>>)
         \o PositionsFrom(pattern, i + 1)

LongPositions(pattern) == PositionsFrom(pattern, 1)

\* lexicographic order of two tuples of one length
LexLess(a, b) ==
    \E k \in 1..Len(a) : a[k] < b[k] /\ \A j \in 1..(k - 1) : a[j] = b[j]

\* the caller's iterator object h has run to its end, it started at the
\* first pattern of its iterator, and nothing else has read that iterator
FullRun(h) ==
    /\ handles[h].kind /= "none"
    /\ ~handles[h].live
    /\ handles[h].src /= 0
    /\ handles[h].start0 = 0
    /\ handles[h].taken = chain[handles[h].src].pos

\* h is a generator of iter(space) that has run so on the iterator the
\* constructor made
FullIteration(h) ==
    /\ FullRun(h)
    /\ handles[h].kind = "iter"
    /\ chain[handles[h].src].by = "init"

(***************************************************************************)
(* Properties.                                                             *)
(***************************************************************************)
\* C1: for every target length N >= 0, len(space) returns, without error,
\* the exact integer Fibonacci(N + 1).
C1_CountIsFibonacci ==
    (pattern_length >= 0 /\ result.op = "len") =>
        /\ result.status = "ok"
        /\ result.num = [s |-> 1, mag |-> BigFib(pattern_length + 1)]

\* C2: for every N >= 0, a full iteration of a newly constructed space
\* ends, having yielded exactly Fibonacci(N + 1) patterns, each a sequence
\* of durations 1 and 2 summing to N, none twice, and every composition of
\* N into parts 1 and 2 among them.
C2_FullIterationIsCompositions ==
    \A h \in HandleIds :
        (FullIteration(h) /\ pattern_length >= 0) =>
            LET got == handles[h].got
                yielded == {Durations(got[i]) : i \in 1..Len(got)}
            IN  /\ Len(got) = Fibonacci(pattern_length + 1)
                /\ \A i \in 1..Len(got) :
                      /\ \A j \in 1..Len(got[i]) : got[i][j].length \in {1, 2}
                      /\ SumOf(Durations(got[i])) = pattern_length
                /\ Cardinality(yielded) = Len(got)
                /\ yielded = Compositions(pattern_length)

C2_Witness ==
    \E h \in HandleIds :
        /\ FullIteration(h)
        /\ pattern_length = 5
        /\ Len(handles[h].got) = 8

\* C3 as stated: a full iteration of a newly constructed space of length 3
\* yields "...", ".-", "-." in this order.
C3_OrderAsStated ==
    \A h \in HandleIds :
        (FullIteration(h) /\ pattern_length = 3) =>
            [i \in 1..Len(handles[h].got) |-> PatternStr(handles[h].got[i])]
                = <<"...", ".-", "-.">>

\* C3, amended: a full iteration of a newly constructed space of length 3
\* yields "...", "-.", ".-" in this order (durations [1,1,1], [2,1], [1,2])
\* and then stops.
C3_OrderOfThree ==
    \A h \in HandleIds :
        (FullIteration(h) /\ pattern_length = 3) =>
            /\ [i \in 1..Len(handles[h].got) |-> PatternStr(handles[h].got[i])]
                  = <<"...", "-.", ".-">>
            /\ [i \in 1..Len(handles[h].got) |-> Durations(handles[h].got[i])]
                  = <<(<<1, 1, 1>>), (<<2, 1>>), (<<1, 2>>)>>

C3_Witness ==
    \E h \in HandleIds :
        /\ FullIteration(h)
        /\ pattern_length = 3
        /\ result.op = "next"
        /\ result.status = "StopIteration"

\* C4: the enumeration comes in groups by the number d of long notes, d
\* ascending from 0 to N div 2; a pattern of group d has N - 2d short notes;
\* a group has one pattern for every d-subset of the N - d positions, in
\* ascending lexicographic order of the tuples of the long notes' positions.
C4_EnumerationOrder ==
    \A h \in HandleIds :
        (FullIteration(h) /\ pattern_length >= 0) =>
            LET got == handles[h].got
                N == pattern_length
                longs(i) == LongPositions(got[i])
                d(i) == Len(longs(i))
            IN  /\ Len(got) >= 1
                /\ d(1) = 0
                /\ d(Len(got)) = N \div 2
                /\ \A i \in 1..Len(got) :
                      /\ Len(got[i]) = N - d(i)
                      /\ Cardinality({j \in 1..Len(got[i]) : is_single(got[i][j])})
                            = N - 2 * d(i)
                /\ \A i \in 1..(Len(got) - 1) :
                      \/ d(i + 1) = d(i) /\ LexLess(longs(i), longs(i + 1))
                      \/ d(i + 1) = d(i) + 1
                /\ \A k \in 0..(N \div 2) :
                      {{longs(i)[j] : j \in 1..k} : i \in {i \in 1..Len(got) : d(i) = k}}
                          = {S \in SUBSET (0..(N - k - 1)) : Cardinality(S) = k}

C4_Witness ==
    \E h \in HandleIds :
        /\ FullIteration(h)
        /\ pattern_length = 4
        /\ \E i \in 1..Len(handles[h].got) :
              LongPositions(handles[h].got[i]) = <<0, 1>>

\* C5: for 0 <= i < count(N), space[i] returns the i-th pattern of the
\* enumeration, whatever was read from the space before.
C5_IndexIsPosition ==
    (/\ pattern_length >= 0
     /\ result.op = "getitem"
     /\ result.arg >= 0
     /\ result.arg < Fibonacci(pattern_length + 1)) =>
        /\ result.status = "ok"
        /\ result.value = <<Enumeration(pattern_length)[result.arg + 1]>>

\* C6: on a newly constructed space, space[i] with i >= count(N) returns no
\* pattern: the indexing call itself raises StopIteration.
C6_IndexPastEnd ==
    (/\ pattern_length >= 0
     /\ result.op = "getitem"
     /\ result.by = "init"
     /\ result.at = 0
     /\ result.arg >= Fibonacci(pattern_length + 1)) =>
        /\ result.status = "StopIteration"
        /\ result.value = <<>>

C6_Witness ==
    /\ pattern_length = 3
    /\ result.op = "getitem"
    /\ result.by = "init"
    /\ result.at = 0
    /\ result.arg = 3
    /\ result.status = "StopIteration"

\* C7: on a newly constructed or just reset space, the full iteration of
\* head(n), with nothing else reading the space, yields the first n
\* patterns of the enumeration in order when n <= count(N) and the whole
\* enumeration when n > count(N); space[0:n] yields the same.
C7_HeadIsPrefix ==
    \A h \in HandleIds :
        (/\ FullRun(h)
         /\ pattern_length >= 0
         /\ handles[h].kind = "islice"
         /\ handles[h].lo = 0
         /\ handles[h].step = 1) =>
            LET n == handles[h].asked
                all == Enumeration(pattern_length)
            IN  IF n <= Fibonacci(pattern_length + 1)
                THEN handles[h].got = SubSeq(all, 1, n)
                ELSE handles[h].got = all

C7_Witness ==
    \E h \in HandleIds :
        /\ FullRun(h)
        /\ pattern_length = 3
        /\ handles[h].origin = "head"
        /\ handles[h].asked = 2
        /\ Len(handles[h].got) = 2
        /\ chain[handles[h].src].by = "reset"

C9_ResetRestarts ==
    /\ result.op = "reset" =>
          /\ chain[patterns].by = "reset"
          /\ chain[patterns].pos = 0
          /\ chain[patterns].after = result.at
          /\ result.arg = pattern_length
    /\ \A h \in HandleIds :
          (/\ FullRun(h)
           /\ handles[h].kind = "iter"
           /\ chain[handles[h].src].by = "reset") =>
              handles[h].got = Enumeration(pattern_length)

C9_Witness ==
    \E h \in HandleIds :
        /\ FullRun(h)
        /\ handles[h].kind = "iter"
        /\ chain[handles[h].src].by = "reset"
        /\ chain[handles[h].src].after = 2
        /\ pattern_length = 3
        /\ Len(handles[h].got) = 3

\* C10: a space of negative target length is refused: len() of it fails
\* with a DomainError instead of returning a count.
C10_NegativeLengthRefused ==
    (pattern_length < 0 /\ result.op = "len") => result.status = "DomainError"

\* the velocities of the accent rule: a pass over the durations from left
\* to right, follows_long telling whether the duration before was 2
RECURSIVE AccentRule(_, _, _)
AccentRule(durations, velocities, follows_long) ==
    IF durations = <<>> THEN <<>>
    ELSE IF Head(durations) = 1
    THEN <<IF follows_long THEN velocities.accent ELSE velocities.normal>>
         \o AccentRule(Tail(durations), velocities, FALSE)
    ELSE <<velocities.normal, velocities.soft>>
         \o AccentRule(Tail(durations), velocities, TRUE)

Velocities(events) == [i \in 1..Len(events) |-> events[i].velocity]

\* C11: play_pattern on a pattern that has notes yields, in note order, the
\* velocities of the accent rule started with follows_long false; short,
\* long, short with the default velocities gives 100, 100, 50, 127.
C11_AccentRule ==
    \A i \in 1..Len(log) :
        log[i].notes /= <<>> =>
            /\ log[i].status = "ok"
            /\ Velocities(log[i].events)
                 = AccentRule(Durations(log[i].notes), log[i].synth.velocities, FALSE)
            /\ (Durations(log[i].notes) = <<1, 2, 1>>
                 /\ log[i].synth.velocities = SynthVelocities)
                => Velocities(log[i].events) = <<100, 100, 50, 127>>

C11_Witness ==
    \E i \in 1..Len(log) :
        /\ Durations(log[i].notes) = <<1, 2, 1>>
        /\ log[i].synth.velocities = SynthVelocities
        /\ Len(log[i].events) = 4

\* the call log[i] of play_pattern was on a pattern taken from the space
FromSpace(i) == heap[log[i].pattern].by = "enumeration"

\* C12: playing the empty pattern, the one pattern of PatternGenerator(0),
\* ends normally and yields no event.
C12_EmptyPatternPlaysNothing ==
    \A i \in 1..Len(log) :
        (pattern_length = 0 /\ FromSpace(i) /\ log[i].notes = <<>>) =>
            /\ log[i].status = "ok"
            /\ log[i].events = <<>>

\* C18: two calls of play_pattern on the same pattern with synthesizers of
\* the same velocities, note number and voice yield the same events,
\* whatever was played in between; the first note of a call is played as not
\* following a long note even when the call before ended with one; and the
\* pattern played has the notes it had.
C18_PlayIsAFunction ==
    /\ \A i, j \in 1..Len(log) :
          (log[i].pattern = log[j].pattern /\ log[i].synth = log[j].synth) =>
              /\ log[i].status = log[j].status
              /\ log[i].events = log[j].events
    /\ \A j \in 2..Len(log) :
          (/\ log[j - 1].notes /= <<>>
           /\ is_double(log[j - 1].notes[Len(log[j - 1].notes)])
           /\ log[j].notes /= <<>>
           /\ is_single(log[j].notes[1])) =>
              log[j].events[1].velocity = log[j].synth.velocities.normal
    /\ \A i \in 1..Len(log) : heap[log[i].pattern].notes = log[i].notes

\* a pattern that starts with a single note is played, then one that ends
\* with a double note, then the first again
C18_Witness ==
    /\ Len(log) = 3
    /\ log[1].pattern = log[3].pattern
    /\ log[1].synth = log[3].synth
    /\ log[2].pattern /= log[1].pattern
    /\ log[1].notes /= <<>>
    /\ is_single(log[1].notes[1])
    /\ log[2].notes /= <<>>
    /\ is_double(log[2].notes[Len(log[2].notes)])
    /\ log[3].status = "ok"

\* C20: play_pattern on a pattern that has notes yields as many events as
\* the durations of its notes sum to, so N events for a pattern taken from
\* PatternGenerator(N); every event has the synthesizer's note number and
\* voice, and one of its three velocities.
C20_OneEventPerUnit ==
    \A i \in 1..Len(log) :
        log[i].notes /= <<>> =>
            /\ log[i].status = "ok"
            /\ Len(log[i].events) = SumOf(Durations(log[i].notes))
            /\ FromSpace(i) => Len(log[i].events) = pattern_length
            /\ \A k \in 1..Len(log[i].events) :
                  /\ log[i].events[k].note_number = log[i].synth.note_number
                  /\ log[i].events[k].voice = log[i].synth.voice
                  /\ log[i].events[k].velocity \in
                        {log[i].synth.velocities.accent,
                         log[i].synth.velocities.normal,
                         log[i].synth.velocities.soft}

\* a pattern with a double note, taken from a space, has been played
C20_Witness ==
    \E i \in 1..Len(log) :
        /\ FromSpace(i)
        /\ pattern_length = MaxN
        /\ \E k \in 1..Len(log[i].notes) : is_double(log[i].notes[k])
        /\ Len(log[i].events) = MaxN

\* C13: for a Pattern p of notes of durations 1 and 2 made with a
\* two-character alphabet a, Pattern.from_string(str(p), representations=a)
\* returns a Pattern that is == p.
C13_RoundTrip ==
    (/\ reply.op = "roundtrip"
     /\ heap[reply.pattern].by = "notes"
     /\ heap[reply.pattern].reps = reply.reps) =>
        /\ reply.status = "ok"
        /\ reply.equal

\* C14: two Patterns are == exactly when their notes have the same
\* durations in the same order, however they were built and whatever
\* alphabet their notes have.
C14_EqualByDurations ==
    reply.op = "eq" =>
        (reply.equal <=>
            Durations(heap[reply.left].notes) = Durations(heap[reply.right].notes))

\* the durations a string over the default alphabet stands for
DefaultDurations(string) ==
    [i \in 1..Len(string) |-> IF string[i] = representations[1] THEN 1 ELSE 2]

\* C15: Pattern.from_string(s) without an alphabet parses s under the
\* default alphabet, for every string s of its two symbols.
C15_DefaultAlphabet ==
    (/\ reply.op = "Pattern.from_string"
     /\ reply.reps = NoAlphabet
     /\ \A i \in 1..Len(reply.string) :
           reply.string[i] \in {representations[1], representations[2]}) =>
        /\ reply.made.status = "ok"
        /\ Durations(reply.made.notes) = DefaultDurations(reply.string)

\* C16: Note(d, alphabet) fails for every d other than 1 and 2, whatever
\* alphabet is passed, and Note.from_string fails with a LookupError (a
\* KeyError is one) for a symbol that is not in the alphabet passed.
C16_NoteRefusals ==
    /\ (reply.op = "Note" /\ reply.length \notin {1, 2}) =>
          reply.made.status /= "ok"
    /\ (/\ reply.op = "Note.from_string"
        /\ reply.reps /= NoAlphabet
        /\ \A i \in 1..Len(reply.reps) : reply.reps[i] /= reply.string) =>
          reply.made.status = "KeyError"

\* the notes of what is added to a Pattern
AddendNotes(other) ==
    IF other.kind = "Note" THEN <<other.note>> ELSE other.notes

\* C17: p + q for Patterns p and q, and p + n for a Pattern p and a Note n,
\* return a new Pattern of p's notes followed by q's notes, or by n, and
\* leave the operands as they were.
C17_Concatenation ==
    reply.op = "add" =>
        /\ reply.sum.status = "ok"
        /\ reply.sum.kind = "Pattern"
        /\ reply.sum.notes = reply.left.notes \o AddendNotes(reply.right)
        /\ SubSeq(heap, 1, Len(reply.before)) = reply.before

\* C19: once choose(k) has returned, the space's iterator is at its end:
\* iterating the space yields no pattern and space[i] fails for every
\* integer i, until reset() is called.
C19_ChooseExhausts ==
    chain[patterns].chosen =>
        /\ list_self(pattern_length, chain[patterns].st).out = <<>>
        /\ result.op \in {"getitem", "step"} => result.status /= "ok"
        /\ (/\ result.op = "next"
            /\ handles[result.arg].kind = "iter"
            /\ handles[result.arg].src = patterns) =>
              result.status = "StopIteration"

\* after choose on a space that had patterns left, space[0] has failed
C19_Witness ==
    /\ chain[patterns].chosen
    /\ pattern_length >= 1
    /\ chain[patterns].pos = Fibonacci(pattern_length + 1)
    /\ result.op = "getitem"
    /\ result.arg = 0
    /\ result.status = "StopIteration"

(***************************************************************************)
(* One iterator and several readers.                                       *)
(***************************************************************************)
\* where a pattern stands in the enumeration of the space (0: nowhere)
PositionOf(pattern) ==
    LET all == Enumeration(pattern_length)
    IN  IF \E i \in 1..Len(all) : all[i] = pattern
        THEN CHOOSE i \in 1..Len(all) : all[i] = pattern
        ELSE 0

\* a step in which a call hands a pattern to the caller: a pull from an
\* iterator object, a step of a loop over the space, or space[index]
Delivery ==
    /\ result' /= result
    /\ result'.op \in {"next", "step", "getitem"}
    /\ result'.status = "ok"

\* C21: with no reset() and no choose(), over any interleaving of loop
\* steps, space[index] and pulls from iter(space), head(n) and slices, the
\* iterator of the space never goes back, and every pattern handed to the
\* caller is the one at the iterator's new position, which is beyond the
\* position it had before the call: so the positions of the patterns
\* delivered increase strictly, none is delivered twice or out of order,
\* and none lies beyond count(N).
C21_DeliveriesAscend ==
    [][/\ patterns' = patterns
       /\ chain'[patterns].pos >= chain[patterns].pos
       /\ chain'[patterns].pos <= Fibonacci(pattern_length + 1)
       /\ Delivery =>
            /\ Len(result'.value) = 1
            /\ PositionOf(result'.value[1]) = chain'[patterns].pos
            /\ chain'[patterns].pos > chain[patterns].pos]_vars

\* on a space of three patterns: one pattern had left the iterator when a
\* head(n) result started, that result took the second, and space[0] then
\* delivered the third
C21_Witness ==
    /\ pattern_length = 3
    /\ result.op = "getitem"
    /\ result.arg = 0
    /\ result.status = "ok"
    /\ result.at = 2
    /\ chain[patterns].pos = 3
    /\ \E h \in HandleIds :
          /\ handles[h].origin = "head"
          /\ handles[h].start0 = 1
          /\ handles[h].taken = 1
          /\ Len(handles[h].got) = 1

\* the results of head(n) the caller holds
HeadResults == {h \in HandleIds : handles[h].origin = "head"}

\* C22: head(n) and slicing are lazy and read the iterator of the space:
\* the call takes nothing from the iterator, which moves only in a pull, a
\* loop step or space[index]; a pattern a head(n) result receives is the
\* one that leaves the iterator in that pull, a pattern a loop step or
\* space[index] delivers is beyond everything a head(n) result has
\* received and is not given to that result, and a head(n) result
\* receives at most n patterns.  (No reset() and no choose() in between.)
C22_LazySharedHead ==
    [][/\ \A h \in HandleIds :
            (handles[h].kind = "none" /\ handles'[h].origin \in {"head", "slice"}) =>
                /\ chain' = chain
                /\ handles'[h].taken = 0
                /\ handles'[h].got = <<>>
       /\ chain' /= chain =>
            /\ result'.op \in {"next", "step", "getitem"}
            /\ result'.at = chain[patterns].pos
            /\ \A h \in HandleIds : handles[h].kind = "none" => handles'[h] = handles[h]
       /\ \A h \in HeadResults :
            /\ Len(handles[h].got) <= handles[h].asked
            /\ handles'[h].origin = "head" =>
                 Len(handles'[h].got) <= handles'[h].asked
       /\ (Delivery /\ result'.op \in {"step", "getitem"}) =>
            \A h \in HeadResults :
                /\ handles'[h] = handles[h]
                /\ \A i \in 1..Len(handles[h].got) :
                      /\ handles[h].got[i] /= result'.value[1]
                      /\ PositionOf(handles[h].got[i]) < PositionOf(result'.value[1])
       /\ (Delivery /\ result'.op = "next" /\ result'.arg \in HeadResults) =>
            LET h == result'.arg
            IN  /\ handles'[h].got = Append(handles[h].got, result'.value[1])
                /\ chain'[handles'[h].src].pos > chain[handles'[h].src].pos
                /\ PositionOf(result'.value[1]) = chain'[handles'[h].src].pos]_vars

\* on a space of three patterns, a head(2) result started after one pattern
\* had left the iterator, received the second, lost the third to another
\* reader, and has stopped with one pattern
C22_Witness ==
    /\ pattern_length = 3
    /\ result.op = "next"
    /\ result.status = "StopIteration"
    /\ chain[patterns].pos = 3
    /\ \E h \in HeadResults :
          /\ result.arg = h
          /\ handles[h].asked = 2
          /\ handles[h].start0 = 1
          /\ handles[h].taken = 1
          /\ Len(handles[h].got) = 1

====
